---- MODULE Spec2Model ----
(***************************************************************************)
(* A model of libtinyiiod's registry (src/iio.c, src/iio.h): the linked    *)
(* lists of attributes, channels and devices built by iio_register_*, the  *)
(* context set up by iio_init, and the six dispatch callbacks that resolve *)
(* textual identifiers against the registry and call the device's          *)
(* accessors.                                                              *)
(*                                                                         *)
(* Representation.  A list pointer (struct attribute_list * and the like)  *)
(* is modelled by the sequence of the items of its nodes; NULL is <<>>.    *)
(* This is exact: iio_register_* allocates the head node only together     *)
(* with its first item, so a list pointer is NULL iff it has no item.      *)
(* Objects (struct attribute, channel, device) are named by strings; their *)
(* constructor-set fields are the constant functions below.                *)
(***************************************************************************)
EXTENDS Integers, Sequences, FiniteSets, TLC

(***************************************************************************)
(* errno values used by src/iio.c                                          *)
(***************************************************************************)
ENOENT == 2
ENOMEM == 12
EINVAL == 22
ENOSYS == 38

NULL == <<>>

(***************************************************************************)
(* Bounds of the model                                                     *)
(***************************************************************************)
\* at most MaxItems registrations succeed in a run
MaxItems == 3
\* at most MaxMainItems registrations succeed in a run of example2.c's main
MaxMainItems == 5

(***************************************************************************)
(* The objects the application constructs with the iio_new_static calls   *)
(***************************************************************************)
AttrObjs == {"scale", "raw", "offset", "scale_b"}
ChanObjs == {"voltage0", "voltage0_out", "voltage1"}
DevObjs  == {"adc", "dac", "adc_b", "adc_999", "adc_1000", "adc_max"}

\* iio_new_static_attribute: name
attribute ==
    [a \in AttrObjs |->
        [name |-> CASE a = "scale"   -> "scale"
                    [] a = "raw"     -> "raw"
                    [] a = "offset"  -> "offset"
                    [] a = "scale_b" -> "scale"]]

\* iio_new_static_channel: id, type; the attribute list starts NULL
channel ==
    [c \in ChanObjs |->
        CASE c = "voltage0"     -> [id |-> "voltage0", type |-> "input"]
          [] c = "voltage0_out" -> [id |-> "voltage0", type |-> "output"]
          [] c = "voltage1"     -> [id |-> "voltage1", type |-> "input"]]

\* A populated accessor slot is named by its function, a null slot is "NULL".
\* iio_new_static_device: name, id, data, attr_accessors, chn_accessors.
\* id holds the 32-bit pattern of the unsigned field as a signed integer: the
\* id 2^32-1 of adc_max is the pattern of -1.
device ==
    [d \in DevObjs |->
        CASE d = "adc" ->
               [name |-> "adc", id |-> 0, data |-> "adc_data",
                attr_accessors |-> [read_attr |-> "read_dev_attr", write_attr |-> "NULL"],
                chn_accessors  |-> [read_attr |-> "read_ch_attr", write_attr |-> "NULL",
                                    read_data |-> "NULL", write_data |-> "NULL"]]
          [] d = "dac" ->
               [name |-> "dac", id |-> 1, data |-> "dac_data",
                attr_accessors |-> [read_attr |-> "NULL", write_attr |-> "write_dev_attr"],
                chn_accessors  |-> [read_attr |-> "NULL", write_attr |-> "write_ch_attr",
                                    read_data |-> "read_dev_data", write_data |-> "write_dev_data"]]
          [] d = "adc_b" ->
               [name |-> "adc", id |-> 1, data |-> "adc_b_data",
                attr_accessors |-> [read_attr |-> "read_dev_attr", write_attr |-> "write_dev_attr"],
                chn_accessors  |-> [read_attr |-> "read_ch_attr", write_attr |-> "write_ch_attr",
                                    read_data |-> "read_dev_data", write_data |-> "NULL"]]
          [] d = "adc_999" ->
               [name |-> "adc_999", id |-> 999, data |-> "adc_999_data",
                attr_accessors |-> [read_attr |-> "read_dev_attr", write_attr |-> "NULL"],
                chn_accessors  |-> [read_attr |-> "read_ch_attr", write_attr |-> "NULL",
                                    read_data |-> "read_dev_data", write_data |-> "NULL"]]
          [] d = "adc_1000" ->
               [name |-> "adc_1000", id |-> 1000, data |-> "adc_1000_data",
                attr_accessors |-> [read_attr |-> "read_dev_attr", write_attr |-> "NULL"],
                chn_accessors  |-> [read_attr |-> "read_ch_attr", write_attr |-> "NULL",
                                    read_data |-> "read_dev_data", write_data |-> "NULL"]]
          [] d = "adc_max" ->
               [name |-> "adc_max", id |-> -1, data |-> "adc_max_data",
                attr_accessors |-> [read_attr |-> "read_dev_attr", write_attr |-> "write_dev_attr"],
                chn_accessors  |-> [read_attr |-> "read_ch_attr", write_attr |-> "write_ch_attr",
                                    read_data |-> "read_dev_data", write_data |-> "write_dev_data"]]]

\* accessors of src/iio.h
IIO_NAME(x) == x.name
IIO_ID(x) == x.id
IIO_TYPE(x) == x.type
IIO_DEV_DATA(x) == x.data
IIO_ATTR_ACCESSORS(x) == x.attr_accessors
IIO_CHN_ACCESSORS(x) == x.chn_accessors

Owners == DevObjs \cup ChanObjs

VARIABLES
    attrs,      \* IIO_ATTR_LIST of every device and channel object
    channels,   \* IIO_CHANNEL_LIST of every device object
    dev_list,   \* the application's struct device_list * (example2.c)
    inited,     \* iio_init has run: context.devices aliases dev_list
    log,        \* history: per collection, the items whose registration returned > 0
    last,       \* the last call: its arguments and what it returned
    context,    \* the static struct context of iio.c: name, description, xml, ops, iiod
    xml_size,   \* the value IIO_XML_SIZE has in this build (iio.h 43-45)
    stop,       \* the flag quit_all sets (example2.c 94, 105-108)
    loop        \* where main's command loop is (example2.c 163-164)

vars == <<attrs, channels, dev_list, inited, log, last, context, xml_size, stop, loop>>

(***************************************************************************)
(* Registration (src/iio.c 511-661)                                        *)
(***************************************************************************)

\* mutant: the loop counts the items without comparing names
RECURSIVE ScanAttributes_NoNameCheck(_, _, _, _)
ScanAttributes_NoNameCheck(list, i, attr, retval) ==
    IF i > Len(list) THEN retval
    ELSE ScanAttributes_NoNameCheck(list, i + 1, attr, retval + 1)

\* for_each_attribute in iio_register_attribute: walks the items from node i,
\* returns -EINVAL at the first one with attr's name, else the count retval.
RECURSIVE ScanAttributes(_, _, _, _)
ScanAttributes(list, i, attr, retval) ==
    IF i > Len(list) THEN retval
    ELSE IF IIO_NAME(attribute[attr]) = IIO_NAME(attribute[list[i]]) THEN -EINVAL
    ELSE ScanAttributes(list, i + 1, attr, retval + 1)

\* mutant: the append path returns the count instead of the position
iio_register_attribute_RetCount(attr, list, calloc_ok) ==
    IF list = NULL
    THEN IF ~calloc_ok
         THEN [ret |-> -ENOMEM, list |-> list]
         ELSE [ret |-> 1, list |-> <<attr>>]
    ELSE LET retval == ScanAttributes_NoNameCheck(list, 1, attr, 0) IN
         IF \E j \in DOMAIN list : IIO_NAME(attribute[list[j]]) = IIO_NAME(attribute[attr])
         THEN [ret |-> -EINVAL, list |-> list]
         ELSE IF ~calloc_ok THEN [ret |-> -EINVAL, list |-> list]
         ELSE [ret |-> retval, list |-> Append(list, attr)]

\* iio_register_attribute(attr, &list); calloc_ok: calloc returns memory.
\* Yields the returned value and the list afterwards.
iio_register_attribute(attr, list, calloc_ok) ==
    IF list = NULL
    THEN IF ~calloc_ok
         THEN [ret |-> -ENOMEM, list |-> list]
         ELSE [ret |-> 1, list |-> <<attr>>]
    ELSE LET retval == ScanAttributes(list, 1, attr, 0) IN
         IF retval < 0 THEN [ret |-> retval, list |-> list]
         ELSE IF ~calloc_ok THEN [ret |-> -EINVAL, list |-> list]
         ELSE [ret |-> retval + 1, list |-> Append(list, attr)]

\* mutant: a channel is refused as soon as its id is taken, whatever the type
RECURSIVE ScanChannels_IdOnly(_, _, _, _)
ScanChannels_IdOnly(list, i, chn, retval) ==
    IF i > Len(list) THEN retval
    ELSE IF IIO_ID(channel[list[i]]) = IIO_ID(channel[chn]) THEN -EINVAL
    ELSE ScanChannels_IdOnly(list, i + 1, chn, retval + 1)

\* for_each_channel in iio_register_channel
RECURSIVE ScanChannels(_, _, _, _)
ScanChannels(list, i, chn, retval) ==
    IF i > Len(list) THEN retval
    ELSE IF /\ IIO_TYPE(channel[list[i]]) = IIO_TYPE(channel[chn])
            /\ IIO_ID(channel[list[i]]) = IIO_ID(channel[chn])
         THEN -EINVAL
    ELSE ScanChannels(list, i + 1, chn, retval + 1)

\* mutant: the new node is filled in but never linked to the last node
iio_register_channel_NoLink(chn, list, calloc_ok) ==
    IF list = NULL
    THEN IF ~calloc_ok
         THEN [ret |-> -ENOMEM, list |-> list]
         ELSE [ret |-> 1, list |-> <<chn>>]
    ELSE IF \E j \in DOMAIN list :
                /\ IIO_TYPE(channel[list[j]]) = IIO_TYPE(channel[chn])
                /\ IIO_ID(channel[list[j]]) = IIO_ID(channel[chn])
         THEN [ret |-> -EINVAL, list |-> list]
         ELSE IF ~calloc_ok THEN [ret |-> -EINVAL, list |-> list]
         ELSE [ret |-> Len(list) + 1, list |-> list]

\* iio_register_channel(channel, &list)
iio_register_channel(chn, list, calloc_ok) ==
    IF list = NULL
    THEN IF ~calloc_ok
         THEN [ret |-> -ENOMEM, list |-> list]
         ELSE [ret |-> 1, list |-> <<chn>>]
    ELSE LET retval == ScanChannels(list, 1, chn, 0) IN
         IF retval < 0 THEN [ret |-> retval, list |-> list]
         ELSE IF ~calloc_ok THEN [ret |-> -EINVAL, list |-> list]
         ELSE [ret |-> retval + 1, list |-> Append(list, chn)]

\* for_each_device in iio_register_device: the id test compares the listed
\* device's id with itself (iio.c 643)
RECURSIVE ScanDevices(_, _, _, _)
ScanDevices(list, i, dev, retval) ==
    IF i > Len(list) THEN retval
    ELSE IF \/ IIO_NAME(device[list[i]]) = IIO_NAME(device[dev])
            \/ IIO_ID(device[list[i]]) = IIO_ID(device[list[i]])
         THEN -EINVAL
    ELSE ScanDevices(list, i + 1, dev, retval + 1)

\* iio_register_device(device, &list)
iio_register_device(dev, list, calloc_ok) ==
    IF list = NULL
    THEN IF ~calloc_ok
         THEN [ret |-> -ENOMEM, list |-> list]
         ELSE [ret |-> 1, list |-> <<dev>>]
    ELSE LET retval == ScanDevices(list, 1, dev, 0) IN
         IF retval < 0 THEN [ret |-> retval, list |-> list]
         ELSE IF ~calloc_ok THEN [ret |-> -EINVAL, list |-> list]
         ELSE [ret |-> retval + 1, list |-> Append(list, dev)]


(***************************************************************************)
(* Dispatch (src/iio.c 60-272)                                             *)
(***************************************************************************)

\* Device identifiers arrive as text: a sequence of characters.
Digits == {"0", "1", "2", "3", "4", "5", "6", "7", "8", "9"}
Spaces == {" "}
DigitVal(c) ==
    CASE c = "0" -> 0 [] c = "1" -> 1 [] c = "2" -> 2 [] c = "3" -> 3 [] c = "4" -> 4
      [] c = "5" -> 5 [] c = "6" -> 6 [] c = "7" -> 7 [] c = "8" -> 8 [] c = "9" -> 9

RECURSIVE SkipSpaces(_, _)
SkipSpaces(s, i) ==
    IF i <= Len(s) /\ s[i] \in Spaces THEN SkipSpaces(s, i + 1) ELSE i

RECURSIVE AtoiDigits(_, _, _)
AtoiDigits(s, i, acc) ==
    IF i <= Len(s) /\ s[i] \in Digits
    THEN AtoiDigits(s, i + 1, acc * 10 + DigitVal(s[i]))
    ELSE acc

\* atoi(3) as called at iio.c 75: leading white space, an optional sign, then
\* the longest run of digits; anything else ends the number, and no digits
\* at all yield 0.  No error is reported.
atoi(s) ==
    LET i == SkipSpaces(s, 1)
        signed == i <= Len(s) /\ s[i] \in {"-", "+"}
        j == IF signed THEN i + 1 ELSE i
        n == AtoiDigits(s, j, 0)
    IN IF signed /\ s[i] = "-" THEN -n ELSE n

\* atoi(device) == IIO_ID(dev): int against unsigned int; the int operand is
\* converted to unsigned, which keeps its 32-bit pattern.
IdMatches(device_id, dev) == atoi(device_id) = IIO_ID(device[dev])

\* for_each_device: index of the first device whose id matches, 0 if none
RECURSIVE FindDevice(_, _, _)
FindDevice(devices, i, device_id) ==
    IF i > Len(devices) THEN 0
    ELSE IF IdMatches(device_id, devices[i]) THEN i
    ELSE FindDevice(devices, i + 1, device_id)

\* for_each_attribute with strcmp(IIO_NAME(attribute), attr) == 0
RECURSIVE FindAttribute(_, _, _)
FindAttribute(list, i, attr) ==
    IF i > Len(list) THEN 0
    ELSE IF IIO_NAME(attribute[list[i]]) = attr THEN i
    ELSE FindAttribute(list, i + 1, attr)

\* for_each_channel with strcmp(IIO_ID(chn), channel) == 0 (iio.c 150-151)
RECURSIVE FindChannel(_, _, _)
FindChannel(list, i, chn_id) ==
    IF i > Len(list) THEN 0
    ELSE IF IIO_ID(channel[list[i]]) = chn_id THEN i
    ELSE FindChannel(list, i + 1, chn_id)

\* What a for_each_* over a NULL list pointer can do: it reads _list->item
\* through the null pointer, which is undefined.  The access traps, or (page
\* zero readable) yields a null item, which ends the loop at once, or yields
\* a non-null word that the loop body then takes for an item.
NullDeref == {"trap", "reads_null", "reads_garbage"}

\* Outcome of a dispatch call: whether it returned, the value, the accessor
\* calls it made, and whether it read through a null list pointer.
Trapped == [returned |-> FALSE, ret |-> 0, calls |-> <<>>, nullderef |-> TRUE]
Returns(v) == [returned |-> TRUE, ret |-> v, calls |-> <<>>, nullderef |-> FALSE]

\* mutant: the accessor's byte count is dropped, only its error is passed on
CallAccessor_StatusOnly(slot, call, acc_ret) ==
    IF slot = "NULL"
    THEN [returned |-> TRUE, ret |-> -ENOSYS, calls |-> <<>>, nullderef |-> FALSE]
    ELSE [returned |-> TRUE, ret |-> IF acc_ret < 0 THEN acc_ret ELSE 0,
          calls |-> <<[fn |-> slot, result |-> acc_ret] @@ call>>, nullderef |-> FALSE]

\* "if (accessors->fn == NULL) return -ENOSYS; return accessors->fn(...)":
\* slot is the accessor slot, call the arguments, acc_ret what the accessor
\* returns; the call is recorded with the accessor's own result
CallAccessor(slot, call, acc_ret) ==
    IF slot = "NULL"
    THEN Returns(-ENOSYS)
    ELSE [returned |-> TRUE, ret |-> acc_ret,
          calls |-> <<[fn |-> slot, result |-> acc_ret] @@ call>>, nullderef |-> FALSE]

\* for_each_* entered with a NULL list pointer (iio.h 185, 191)
NullList(slot, call, ub, acc_ret) ==
    CASE ub = "trap" -> Trapped
      [] ub = "reads_null" -> [Returns(-ENOENT) EXCEPT !.nullderef = TRUE]
      [] ub = "reads_garbage" -> [CallAccessor(slot, call, acc_ret) EXCEPT !.nullderef = TRUE]

\* the attribute loop shared by read_attr and write_attr
DevAttrLookup(dev, slot, attr, call, ub, acc_ret) ==
    IF attrs[dev] = NULL
    THEN NullList(slot, call, ub, acc_ret)
    ELSE IF FindAttribute(attrs[dev], 1, attr) # 0
         THEN CallAccessor(slot, call, acc_ret)
         ELSE Returns(-ENOENT)

read_attr(devices, device_id, attr, buf, len, type, ub, acc_ret) ==
    LET i == FindDevice(devices, 1, device_id) IN
    IF i = 0 THEN Returns(-ENOENT)
    ELSE LET dev == devices[i] IN
         DevAttrLookup(dev, IIO_ATTR_ACCESSORS(device[dev]).read_attr, attr,
                       [data |-> IIO_DEV_DATA(device[dev]), attr |-> attr,
                        buf |-> buf, len |-> len, type |-> type],
                       ub, acc_ret)

write_attr(devices, device_id, attr, buf, len, type, ub, acc_ret) ==
    LET i == FindDevice(devices, 1, device_id) IN
    IF i = 0 THEN Returns(-ENOENT)
    ELSE LET dev == devices[i] IN
         DevAttrLookup(dev, IIO_ATTR_ACCESSORS(device[dev]).write_attr, attr,
                       [data |-> IIO_DEV_DATA(device[dev]), attr |-> attr,
                        buf |-> buf, len |-> len, type |-> type],
                       ub, acc_ret)

\* the channel and attribute loops shared by ch_read_attr and ch_write_attr;
\* ch_out is handed to the accessor and takes no part in the lookup
ChnAttrLookup(dev, slot, chn_id, attr, call, ub, acc_ret) ==
    IF channels[dev] = NULL
    THEN NullList(slot, call, ub, acc_ret)
    ELSE LET c == FindChannel(channels[dev], 1, chn_id) IN
         IF c = 0 THEN Returns(-ENOENT)
         ELSE LET list == attrs[channels[dev][c]] IN
              IF list = NULL
              THEN NullList(slot, call, ub, acc_ret)
              ELSE IF FindAttribute(list, 1, attr) # 0
                   THEN CallAccessor(slot, call, acc_ret)
                   ELSE Returns(-ENOENT)

ch_read_attr(devices, device_id, chn_id, ch_out, attr, buf, len, ub, acc_ret) ==
    LET i == FindDevice(devices, 1, device_id) IN
    IF i = 0 THEN Returns(-ENOENT)
    ELSE LET dev == devices[i] IN
         ChnAttrLookup(dev, IIO_CHN_ACCESSORS(device[dev]).read_attr, chn_id, attr,
                       [data |-> IIO_DEV_DATA(device[dev]), channel |-> chn_id,
                        ch_out |-> ch_out, attr |-> attr, buf |-> buf, len |-> len],
                       ub, acc_ret)

ch_write_attr(devices, device_id, chn_id, ch_out, attr, buf, len, ub, acc_ret) ==
    LET i == FindDevice(devices, 1, device_id) IN
    IF i = 0 THEN Returns(-ENOENT)
    ELSE LET dev == devices[i] IN
         ChnAttrLookup(dev, IIO_CHN_ACCESSORS(device[dev]).write_attr, chn_id, attr,
                       [data |-> IIO_DEV_DATA(device[dev]), channel |-> chn_id,
                        ch_out |-> ch_out, attr |-> attr, buf |-> buf, len |-> len],
                       ub, acc_ret)

\* mutant: a device without channels has no data stream
read_data_NeedsChannel(devices, device_id, buf, offset, bytes_count, acc_ret) ==
    LET i == FindDevice(devices, 1, device_id) IN
    IF i = 0 THEN Returns(-ENOENT)
    ELSE LET dev == devices[i] IN
         IF channels[dev] = <<>> THEN Returns(-ENOENT)
         ELSE CallAccessor(IIO_CHN_ACCESSORS(device[dev]).read_data,
                           [data |-> IIO_DEV_DATA(device[dev]), buf |-> buf,
                            offset |-> offset, bytes_count |-> bytes_count],
                           acc_ret)

read_data(devices, device_id, buf, offset, bytes_count, acc_ret) ==
    LET i == FindDevice(devices, 1, device_id) IN
    IF i = 0 THEN Returns(-ENOENT)
    ELSE LET dev == devices[i] IN
         CallAccessor(IIO_CHN_ACCESSORS(device[dev]).read_data,
                      [data |-> IIO_DEV_DATA(device[dev]), buf |-> buf,
                       offset |-> offset, bytes_count |-> bytes_count],
                      acc_ret)

write_data(devices, device_id, buf, offset, bytes_count, acc_ret) ==
    LET i == FindDevice(devices, 1, device_id) IN
    IF i = 0 THEN Returns(-ENOENT)
    ELSE LET dev == devices[i] IN
         CallAccessor(IIO_CHN_ACCESSORS(device[dev]).write_data,
                      [data |-> IIO_DEV_DATA(device[dev]), buf |-> buf,
                       offset |-> offset, bytes_count |-> bytes_count],
                      acc_ret)


(***************************************************************************)
(* The descriptor (src/iio.c 40-56, 274-390)                               *)
(***************************************************************************)
IIO_XML_SIZE == 1024 * 3

\* a build made with -DIIO_XML_SIZE=900, which "#ifndef IIO_XML_SIZE" admits
SmallXmlSize == 900

dtd ==
    "<?xml version=\"1.0\" encoding=\"utf-8\"?>"
    \o "<!DOCTYPE context ["
    \o "<!ELEMENT context (device)*>"
    \o "<!ELEMENT device (channel | attribute | debug-attribute | buffer-attribute)*>"
    \o "<!ELEMENT channel (scan-element?, attribute*)>"
    \o "<!ELEMENT attribute EMPTY>"
    \o "<!ELEMENT scan-element EMPTY>"
    \o "<!ELEMENT debug-attribute EMPTY>"
    \o "<!ELEMENT buffer-attribute EMPTY>"
    \o "<!ATTLIST context name CDATA #REQUIRED description CDATA #IMPLIED>"
    \o "<!ATTLIST device id CDATA #REQUIRED name CDATA #IMPLIED>"
    \o "<!ATTLIST channel id CDATA #REQUIRED type (input|output) #REQUIRED name CDATA #IMPLIED>"
    \o "<!ATTLIST scan-element index CDATA #REQUIRED format CDATA #REQUIRED scale CDATA #IMPLIED>"
    \o "<!ATTLIST attribute name CDATA #REQUIRED filename CDATA #IMPLIED>"
    \o "<!ATTLIST debug-attribute name CDATA #REQUIRED>"
    \o "<!ATTLIST buffer-attribute name CDATA #REQUIRED value CDATA #IMPLIED>]>"

\* C strings are TLA+ strings: strlen is Len, strcat is \o
strlen(s) == Len(s)

\* A piece of a group of appends: the text one strcat appends and what the
\* statement "index += ..." before it adds for it: strlen of the same string,
\* or the literal 2U the code adds for a two-character tail.
Str(s) == [text |-> s, count |-> strlen(s)]
Tail2U(s) == [text |-> s, count |-> 2]

\* the "index += ..." statements of a group
RECURSIVE strlens(_)
strlens(pieces) ==
    IF pieces = <<>> THEN 0 ELSE Head(pieces).count + strlens(Tail(pieces))

\* the strcat calls of a group
RECURSIVE strcats(_, _)
strcats(xml, pieces) ==
    IF pieces = <<>> THEN xml ELSE strcats(xml \o Head(pieces).text, Tail(pieces))

DigitChar(n) ==
    CASE n = 0 -> "0" [] n = 1 -> "1" [] n = 2 -> "2" [] n = 3 -> "3" [] n = 4 -> "4"
      [] n = 5 -> "5" [] n = 6 -> "6" [] n = 7 -> "7" [] n = 8 -> "8" [] n = 9 -> "9"

RECURSIVE DecimalDigits(_)
DecimalDigits(n) ==
    IF n < 10 THEN DigitChar(n) ELSE DecimalDigits(n \div 10) \o DigitChar(n % 10)

\* sprintf(id_str, "%d", IIO_ID(device)): the unsigned id is printed as the
\* int of the same 32 bits
sprintf_d(n) == IF n < 0 THEN "-" \o DecimalDigits(-n) ELSE DecimalDigits(n)

\* what a string read through a garbage pointer looks like
Garbage == "?"

\* The progress of generate_xml: the buffer, the counter index, how the run
\* stands ("run", "assert": an assert failed and abort() ended the process,
\* "trap": a null pointer read trapped, or a write past id_str was caught),
\* whether a NULL list was read and whether sprintf wrote past id_str.
\* counted records that so far, after the strcpy and after every group of
\* appends, index was the number of characters in the buffer.
XmlStart(xml, index) ==
    [status |-> "run", xml |-> xml, index |-> index, nullderef |-> FALSE,
     overrun |-> FALSE, counted |-> (index = strlen(xml))]

\* mutant: the strings are appended first and the counter checked afterwards
AppendGroup_AppendsFirst(st, pieces) ==
    IF st.status # "run" THEN st
    ELSE LET index == st.index + strlens(pieces)
             xml == strcats(st.xml, pieces)
         IN [st EXCEPT !.index = index, !.xml = xml,
                       !.counted = (st.counted /\ index = strlen(xml)),
                       !.status = IF index < xml_size THEN "run" ELSE "assert"]

\* "index += strlen(p) ...; assert(index < IIO_XML_SIZE); strcat(xml, p) ..."
AppendGroup(st, pieces) ==
    IF st.status # "run" THEN st
    ELSE LET index == st.index + strlens(pieces) IN
         IF index < xml_size
         THEN LET xml == strcats(st.xml, pieces) IN
              [st EXCEPT !.index = index, !.xml = xml,
                         !.counted = (st.counted /\ index = strlen(xml))]
         ELSE [st EXCEPT !.index = index, !.status = "assert"]

AttributeElement(name) == <<Str("<attribute name=\""), Str(name), Str("\" />")>>

\* for_each_attribute over a non-null list in populate_attributes
RECURSIVE AppendAttributes(_, _, _)
AppendAttributes(st, list, i) ==
    IF i > Len(list) THEN st
    ELSE AppendAttributes(AppendGroup(st, AttributeElement(IIO_NAME(attribute[list[i]]))),
                          list, i + 1)

\* populate_attributes(xml, &index, attrs, level); a NULL attrs is read
\* through by for_each_attribute (iio.h 191)
populate_attributes(st, list, ub) ==
    IF st.status # "run" THEN st
    ELSE IF list = NULL
    THEN CASE ub = "trap" -> [st EXCEPT !.status = "trap", !.nullderef = TRUE]
           [] ub = "reads_null" -> [st EXCEPT !.nullderef = TRUE]
           [] ub = "reads_garbage" ->
                [AppendGroup(st, AttributeElement(Garbage)) EXCEPT !.nullderef = TRUE]
    ELSE AppendAttributes(st, list, 1)

ChannelOpen(id, type) ==
    <<Str("<channel id=\""), Str(id), Str("\" type=\""), Str(type), Tail2U("\">")>>

\* mutant: the channel element is closed before its attributes are written
RenderChannel_AttrsOutside(st, c, ub) ==
    populate_attributes(
        AppendGroup(AppendGroup(st, ChannelOpen(IIO_ID(channel[c]), IIO_TYPE(channel[c]))),
                    <<Str("</channel>")>>),
        attrs[c], ub)

\* the body of for_each_channel in generate_xml (iio.c 352-368)
RenderChannel(st, c, ub) ==
    AppendGroup(
        populate_attributes(
            AppendGroup(st, ChannelOpen(IIO_ID(channel[c]), IIO_TYPE(channel[c]))),
            attrs[c], ub),
        <<Str("</channel>")>>)

RECURSIVE RenderChannels(_, _, _, _)
RenderChannels(st, list, i, ub) ==
    IF i > Len(list) THEN st
    ELSE RenderChannels(RenderChannel(st, list[i], ub), list, i + 1, ub)

\* for_each_channel(IIO_CHANNEL_LIST(device), ...); a NULL list is read
\* through (iio.h 185); a garbage channel is written with what its fields
\* hold and no attribute
ForEachChannel(st, list, ub) ==
    IF st.status # "run" THEN st
    ELSE IF list = NULL
    THEN CASE ub = "trap" -> [st EXCEPT !.status = "trap", !.nullderef = TRUE]
           [] ub = "reads_null" -> [st EXCEPT !.nullderef = TRUE]
           [] ub = "reads_garbage" ->
                [AppendGroup(AppendGroup(st, ChannelOpen(Garbage, Garbage)), <<Str("</channel>")>>)
                    EXCEPT !.nullderef = TRUE]
    ELSE RenderChannels(st, list, 1, ub)

DeviceOpen(id_str, name) ==
    <<Str("<device id=\""), Str(id_str), Str("\" name=\""), Str(name), Tail2U("\">")>>

\* "char id_str[4];" (iio.c 310)
IdStrSize == 4

\* sprintf(id_str, "%d", ...) with more than three characters to write goes
\* past the end of id_str, which is undefined.  The write is caught and the
\* process killed (a fortified sprintf, a stack protector, a fault); or the
\* bytes land in storage nothing uses and the text reads back whole; or they
\* land in a live neighbour (index, by the look of the declarations), which
\* is written again before strcat reads id_str, so that the text appended
\* runs on past what strlen counted.
IdStrOverrun == {"trap", "unnoticed", "garbage"}

\* the body of for_each_device in generate_xml (iio.c 336-376)
RenderDevice(st, d, ub, ov) ==
    LET id_str == sprintf_d(IIO_ID(device[d]))
        fits == strlen(id_str) + 1 <= IdStrSize
        printed == IF fits THEN st ELSE [st EXCEPT !.overrun = TRUE]
        open == IF ~fits /\ ov = "garbage"
                THEN [DeviceOpen(id_str, IIO_NAME(device[d])) EXCEPT
                         ![2] = [text |-> id_str \o Garbage, count |-> strlen(id_str)]]
                ELSE DeviceOpen(id_str, IIO_NAME(device[d]))
        opened == AppendGroup(printed, open)
        chans == ForEachChannel(opened, channels[d], ub)
        own == populate_attributes(chans, attrs[d], ub)
    IN IF st.status # "run" THEN st
       ELSE IF ~fits /\ ov = "trap" THEN [printed EXCEPT !.status = "trap"]
       ELSE AppendGroup(own, <<Str("</device>")>>)

RECURSIVE RenderDevices(_, _, _, _, _)
RenderDevices(st, list, i, ub, ov) ==
    IF i > Len(list) THEN st
    ELSE RenderDevices(RenderDevice(st, list[i], ub, ov), list, i + 1, ub, ov)

ForEachDevice(st, list, ub, ov) ==
    IF st.status # "run" THEN st
    ELSE IF list = NULL
    THEN CASE ub = "trap" -> [st EXCEPT !.status = "trap", !.nullderef = TRUE]
           [] ub = "reads_null" -> [st EXCEPT !.nullderef = TRUE]
           [] ub = "reads_garbage" ->
                [AppendGroup(AppendGroup(st, DeviceOpen(Garbage, Garbage)), <<Str("</device>")>>)
                    EXCEPT !.nullderef = TRUE]
    ELSE RenderDevices(st, list, 1, ub, ov)

\* mutant: the document is appended to what the buffer holds
generate_xml_Strcat(old_xml, name, description, devices, ub, ov) ==
    LET index == strlen(dtd) IN
    IF ~(xml_size > index)
    THEN [XmlStart(old_xml, index) EXCEPT !.status = "assert"]
    ELSE LET copied == XmlStart(old_xml \o dtd, index)
             ctx == AppendGroup(AppendGroup(copied, <<Str("<context name=\""), Str(name), Tail2U("\" ")>>),
                                <<Str("description=\""), Str(description), Tail2U("\">")>>)
         IN AppendGroup(ForEachDevice(ctx, devices, ub, ov), <<Str("</context>")>>)

\* generate_xml(&context): old_xml is what context.xml holds on entry
generate_xml(old_xml, name, description, devices, ub, ov) ==
    LET index == strlen(dtd) IN
    IF ~(xml_size > index)
    THEN [XmlStart(old_xml, index) EXCEPT !.status = "assert"]
    ELSE LET copied == XmlStart(dtd, index)
             ctx == AppendGroup(AppendGroup(copied, <<Str("<context name=\""), Str(name), Tail2U("\" ")>>),
                                <<Str("description=\""), Str(description), Tail2U("\">")>>)
         IN AppendGroup(ForEachDevice(ctx, devices, ub, ov), <<Str("</context>")>>)

\* the ops table iio_init fills (iio.c 676-685)
NoOps ==
    [read_attr |-> "NULL", write_attr |-> "NULL", ch_read_attr |-> "NULL",
     ch_write_attr |-> "NULL", read_data |-> "NULL", write_data |-> "NULL",
     get_xml |-> "NULL", write |-> "NULL", read |-> "NULL"]

\* the zeroed static context (iio.c 58)
NoContext == [name |-> "", description |-> "", xml |-> "", ops |-> NoOps, iiod |-> "NULL"]

\* mutant: read_cb is not checked
iio_init_NoReadCheck(ctx, ctx_name, ctx_desc, devices, write_cb, read_cb, ub, ov) ==
    IF devices = NULL \/ write_cb = "NULL"
    THEN [status |-> "assert", nullderef |-> FALSE, overrun |-> FALSE, counted |-> TRUE,
          index |-> 0, registered |-> FALSE, context |-> ctx]
    ELSE LET ops == [read_attr |-> "read_attr", write_attr |-> "write_attr",
                     ch_read_attr |-> "ch_read_attr", ch_write_attr |-> "ch_write_attr",
                     read_data |-> "read_data", write_data |-> "write_data",
                     get_xml |-> "get_xml", write |-> write_cb, read |-> read_cb]
             g == generate_xml(ctx.xml, ctx_name, ctx_desc, devices, ub, ov)
         IN [status |-> IF g.status = "run" THEN "return" ELSE g.status,
             nullderef |-> g.nullderef, overrun |-> g.overrun, counted |-> g.counted,
             index |-> g.index, registered |-> TRUE,
             context |-> [name |-> ctx_name, description |-> ctx_desc, xml |-> g.xml,
                          ops |-> ops, iiod |-> "iiod"]]

\* iio_init(ctx_name, ctx_desc, devices, write_cb, read_cb) on the context
\* ctx: the asserts, the copies into the context, the ops table,
\* tinyiiod_create, generate_xml.  registered: context.devices was assigned.
iio_init(ctx, ctx_name, ctx_desc, devices, write_cb, read_cb, ub, ov) ==
    IF devices = NULL \/ write_cb = "NULL" \/ read_cb = "NULL"
    THEN [status |-> "assert", nullderef |-> FALSE, overrun |-> FALSE, counted |-> TRUE,
          index |-> 0, registered |-> FALSE, context |-> ctx]
    ELSE LET ops == [read_attr |-> "read_attr", write_attr |-> "write_attr",
                     ch_read_attr |-> "ch_read_attr", ch_write_attr |-> "ch_write_attr",
                     read_data |-> "read_data", write_data |-> "write_data",
                     get_xml |-> "get_xml", write |-> write_cb, read |-> read_cb]
             g == generate_xml(ctx.xml, ctx_name, ctx_desc, devices, ub, ov)
         IN [status |-> IF g.status = "run" THEN "return" ELSE g.status,
             nullderef |-> g.nullderef, overrun |-> g.overrun, counted |-> g.counted,
             index |-> g.index, registered |-> TRUE,
             context |-> [name |-> ctx_name, description |-> ctx_desc, xml |-> g.xml,
                          ops |-> ops, iiod |-> "iiod"]]

\* mutant: get_xml renders the document anew on every request
get_xml_Renders(ctx) ==
    LET g == generate_xml(ctx.xml, ctx.name, ctx.description, dev_list, "reads_null", "unnoticed")
    IN [ret |-> 0, outxml |-> g.xml, context |-> [ctx EXCEPT !.xml = g.xml]]

\* get_xml(&outxml): *outxml = context.xml, returns 0
get_xml(ctx) == [ret |-> 0, outxml |-> ctx.xml, context |-> ctx]


(***************************************************************************)
(* The inputs tried                                                        *)
(***************************************************************************)
\* device identifiers of requests: "0", "1", "", "x", "1x"
DeviceIds == {<<"0">>, <<"1">>, <<>>, <<"x">>, <<"1", "x">>}
ChannelIds == {"voltage0"}
AttrNames == {"scale"}
Bufs == {"buf"}
Lens == {16}
Offsets == {0}
AttrTypes == {"IIO_ATTR_TYPE_DEVICE"}
\* iio_init("tiny", "Tiny IIOD", dev_list, write_data, read_data)
CtxNames == {"tiny"}
CtxDescs == {"Tiny IIOD"}
\* <<write_cb, read_cb>>; "NULL" is a null function pointer
Callbacks == {<<"write_data", "read_data">>, <<"NULL", "read_data">>, <<"write_data", "NULL">>}
\* what an accessor may return: an error code or a byte count
AccRets == {-ENOENT, 5}
\* the collections the application registers into
AppDevs == {"adc", "dac", "adc_b"}
AttrOwners == {"adc", "dac", "voltage0", "voltage0_out"}
ChanOwners == {"adc", "dac"}

RECURSIVE SumLen(_, _)
SumLen(f, S) ==
    IF S = {} THEN 0
    ELSE LET x == CHOOSE y \in S : TRUE IN Len(f[x]) + SumLen(f, S \ {x})

\* number of registered items over all collections
TotalItems == SumLen(attrs, Owners) + SumLen(channels, DevObjs) + Len(dev_list)

NoCall == [op |-> "none", arg |-> <<>>, before |-> <<>>,
           returned |-> TRUE, ret |-> 0, calls |-> <<>>, nullderef |-> FALSE]

(***************************************************************************)
(* State after construction: every list pointer NULL (iio_new_static_*     *)
(* at iio.c 404, 462-463; dev_list and context are zeroed statics)         *)
(***************************************************************************)
Init ==
    /\ attrs = [o \in Owners |-> NULL]
    /\ channels = [d \in DevObjs |-> NULL]
    /\ dev_list = NULL
    /\ inited = FALSE
    /\ log = [attrs |-> [o \in Owners |-> <<>>],
              channels |-> [d \in DevObjs |-> <<>>],
              devices |-> <<>>]
    /\ last = NoCall
    /\ context = NoContext
    /\ xml_size = IIO_XML_SIZE
    /\ stop = FALSE
    /\ loop = "any"

Registered(r, item, hist) == IF r.ret > 0 THEN Append(hist, item) ELSE hist

\* The application can call iio_init: main before its loop, or an application
\* that is left open ("any").
BeforeLoop == loop \in {"any", "main"}

\* The application can call iio_register_*: the open application keeps to
\* the two phases, all registration before iio_init; main is followed
\* through whatever it calls before its loop.
Building == (loop = "any" /\ ~inited) \/ loop = "main"

\* the protocol engine can call an entry of the ops table: at any time when
\* the application is left open, inside iio_read_command in example2.c's loop
EngineRuns == inited /\ loop \in {"any", "command"}

\* iio_register_attribute(&a, &IIO_ATTR_LIST(o)), a and o drawn from As and Os
RegisterAttributeIn(As, Os, Callocs, limit) ==
    /\ last = NoCall
    /\ Building
    /\ \E a \in As, o \in Os, calloc_ok \in Callocs :
        LET r == iio_register_attribute(a, attrs[o], calloc_ok) IN
        /\ r.ret > 0 => TotalItems < limit
        /\ attrs' = [attrs EXCEPT ![o] = r.list]
        /\ log' = [log EXCEPT !.attrs[o] = Registered(r, a, @)]
        /\ last' = [op |-> "iio_register_attribute",
                    arg |-> [item |-> a, owner |-> o, calloc_ok |-> calloc_ok],
                    before |-> attrs[o],
                    returned |-> TRUE, ret |-> r.ret, calls |-> <<>>,
                    nullderef |-> FALSE]
        /\ UNCHANGED <<channels, dev_list, inited, context, xml_size, stop, loop>>

RegisterAttribute == RegisterAttributeIn(AttrObjs, AttrOwners, BOOLEAN, MaxItems)

\* iio_register_channel(&c, &IIO_CHANNEL_LIST(d))
RegisterChannelIn(Cs, Ds, Callocs, limit) ==
    /\ last = NoCall
    /\ Building
    /\ \E c \in Cs, d \in Ds, calloc_ok \in Callocs :
        LET r == iio_register_channel(c, channels[d], calloc_ok) IN
        /\ r.ret > 0 => TotalItems < limit
        /\ channels' = [channels EXCEPT ![d] = r.list]
        /\ log' = [log EXCEPT !.channels[d] = Registered(r, c, @)]
        /\ last' = [op |-> "iio_register_channel",
                    arg |-> [item |-> c, owner |-> d, calloc_ok |-> calloc_ok],
                    before |-> channels[d],
                    returned |-> TRUE, ret |-> r.ret, calls |-> <<>>,
                    nullderef |-> FALSE]
        /\ UNCHANGED <<attrs, dev_list, inited, context, xml_size, stop, loop>>

RegisterChannel == RegisterChannelIn(ChanObjs, ChanOwners, BOOLEAN, MaxItems)

\* iio_register_device(&d, &dev_list)
RegisterDeviceIn(Ds, Callocs, limit) ==
    /\ last = NoCall
    /\ Building
    /\ \E d \in Ds, calloc_ok \in Callocs :
        LET r == iio_register_device(d, dev_list, calloc_ok) IN
        /\ r.ret > 0 => TotalItems < limit
        /\ dev_list' = r.list
        /\ log' = [log EXCEPT !.devices = Registered(r, d, @)]
        /\ last' = [op |-> "iio_register_device",
                    arg |-> [item |-> d, owner |-> "dev_list", calloc_ok |-> calloc_ok],
                    before |-> dev_list,
                    returned |-> TRUE, ret |-> r.ret, calls |-> <<>>,
                    nullderef |-> FALSE]
        /\ UNCHANGED <<attrs, channels, inited, context, xml_size, stop, loop>>

RegisterDevice == RegisterDeviceIn(AppDevs, BOOLEAN, MaxItems)

\* context = iio_init(name, desc, dev_list, write_cb, read_cb) (example2.c
\* 150).  A failed assert or a trap ends the process inside the call.
IioInitWith(Cbs) ==
    /\ last = NoCall
    /\ BeforeLoop
    /\ \E ctx_name \in CtxNames, ctx_desc \in CtxDescs, cb \in Cbs :
      \E r \in { iio_init(context, ctx_name, ctx_desc, dev_list, cb[1], cb[2], ub, ov) :
                  ub \in NullDeref, ov \in IdStrOverrun } :
        /\ context' = r.context
        /\ inited' = (inited \/ r.registered)
        /\ last' = [op |-> "iio_init",
                    arg |-> [ctx_name |-> ctx_name, ctx_desc |-> ctx_desc,
                             devices |-> dev_list, write_cb |-> cb[1], read_cb |-> cb[2]],
                    before |-> context,
                    returned |-> (r.status = "return"), ret |-> 0, calls |-> <<>>,
                    nullderef |-> r.nullderef, overrun |-> r.overrun,
                    counted |-> r.counted, status |-> r.status, index |-> r.index]
        /\ UNCHANGED <<attrs, channels, dev_list, log, xml_size, stop, loop>>

IioInit == IioInitWith(Callbacks)

\* IIO_DEVICE_LIST(&context): the list iio_init stored; its head node is the
\* one dev_list points to, so it shows every later registration too
ContextDevices == dev_list

Dispatched(op, arg, r) ==
    /\ last' = [op |-> op, arg |-> arg, before |-> <<>>,
                returned |-> r.returned, ret |-> r.ret, calls |-> r.calls,
                nullderef |-> r.nullderef]
    /\ UNCHANGED <<attrs, channels, dev_list, inited, log, context, xml_size, stop, loop>>

\* the protocol engine calls ops.read_attr
ReadAttrWith(Ids) ==
    /\ last = NoCall
    /\ EngineRuns
    /\ \E dv \in Ids, at \in AttrNames, buf \in Bufs, len \in Lens, type \in AttrTypes :
      \E r \in { read_attr(ContextDevices, dv, at, buf, len, type, ub, acc_ret) :
                  ub \in NullDeref, acc_ret \in AccRets } :
        /\ Dispatched("read_attr",
                      [device |-> dv, attr |-> at, buf |-> buf, len |-> len, type |-> type],
                      r)

ReadAttr == ReadAttrWith(DeviceIds)

WriteAttrWith(Ids) ==
    /\ last = NoCall
    /\ EngineRuns
    /\ \E dv \in Ids, at \in AttrNames, buf \in Bufs, len \in Lens, type \in AttrTypes :
      \E r \in { write_attr(ContextDevices, dv, at, buf, len, type, ub, acc_ret) :
                  ub \in NullDeref, acc_ret \in AccRets } :
        /\ Dispatched("write_attr",
                      [device |-> dv, attr |-> at, buf |-> buf, len |-> len, type |-> type],
                      r)

WriteAttr == WriteAttrWith(DeviceIds)

ChReadAttrWith(Ids) ==
    /\ last = NoCall
    /\ EngineRuns
    /\ \E dv \in Ids, ch \in ChannelIds, ch_out \in BOOLEAN, at \in AttrNames,
       buf \in Bufs, len \in Lens :
      \E r \in { ch_read_attr(ContextDevices, dv, ch, ch_out, at, buf, len, ub, acc_ret) :
                  ub \in NullDeref, acc_ret \in AccRets } :
        /\ Dispatched("ch_read_attr",
                      [device |-> dv, channel |-> ch, ch_out |-> ch_out, attr |-> at,
                       buf |-> buf, len |-> len],
                      r)

ChReadAttr == ChReadAttrWith(DeviceIds)

ChWriteAttrWith(Ids) ==
    /\ last = NoCall
    /\ EngineRuns
    /\ \E dv \in Ids, ch \in ChannelIds, ch_out \in BOOLEAN, at \in AttrNames,
       buf \in Bufs, len \in Lens :
      \E r \in { ch_write_attr(ContextDevices, dv, ch, ch_out, at, buf, len, ub, acc_ret) :
                  ub \in NullDeref, acc_ret \in AccRets } :
        /\ Dispatched("ch_write_attr",
                      [device |-> dv, channel |-> ch, ch_out |-> ch_out, attr |-> at,
                       buf |-> buf, len |-> len],
                      r)

ChWriteAttr == ChWriteAttrWith(DeviceIds)

ReadDataWith(Ids) ==
    /\ last = NoCall
    /\ EngineRuns
    /\ \E dv \in Ids, buf \in Bufs, offset \in Offsets, bytes_count \in Lens :
      \E r \in { read_data(ContextDevices, dv, buf, offset, bytes_count, acc_ret) :
                  acc_ret \in AccRets } :
        /\ Dispatched("read_data",
                      [device |-> dv, buf |-> buf, offset |-> offset,
                       bytes_count |-> bytes_count],
                      r)

ReadData == ReadDataWith(DeviceIds)

WriteDataWith(Ids) ==
    /\ last = NoCall
    /\ EngineRuns
    /\ \E dv \in Ids, buf \in Bufs, offset \in Offsets, bytes_count \in Lens :
      \E r \in { write_data(ContextDevices, dv, buf, offset, bytes_count, acc_ret) :
                  acc_ret \in AccRets } :
        /\ Dispatched("write_data",
                      [device |-> dv, buf |-> buf, offset |-> offset,
                       bytes_count |-> bytes_count],
                      r)

WriteData == WriteDataWith(DeviceIds)

\* the protocol engine calls ops.get_xml
GetXml ==
    /\ last = NoCall
    /\ EngineRuns
    /\ LET r == get_xml(context) IN
        /\ context' = r.context
        /\ last' = [op |-> "get_xml", arg |-> <<>>, before |-> context,
                    returned |-> TRUE, ret |-> r.ret, calls |-> <<>>,
                    nullderef |-> FALSE, outxml |-> r.outxml]
        /\ UNCHANGED <<attrs, channels, dev_list, inited, log, xml_size, stop, loop>>

\* The call returns and the caller goes on: main's next statement while
\* building; in the command loop iio_read_command returns to the loop test.
\* A call that did not return ended the process: nothing follows it.
Continue ==
    /\ last # NoCall
    /\ last.returned
    /\ last' = NoCall
    /\ loop' = IF loop = "command" THEN "head" ELSE loop
    /\ UNCHANGED <<attrs, channels, dev_list, inited, log, context, xml_size, stop>>

\* main goes from iio_init through the set_handler calls to the loop
\* (example2.c 150-163)
EnterLoop ==
    /\ last = NoCall
    /\ loop = "main"
    /\ inited
    /\ loop' = "head"
    /\ UNCHANGED <<attrs, channels, dev_list, inited, log, last, context, xml_size, stop>>

\* mutant: the loop never reads the flag
LoopTest_IgnoresStop ==
    /\ loop = "head"
    /\ loop' = "command"
    /\ UNCHANGED <<attrs, channels, dev_list, inited, log, last, context, xml_size, stop>>

\* "while (!stop) iio_read_command(context);" (example2.c 162-163)
LoopTest ==
    /\ loop = "head"
    /\ loop' = IF stop THEN "exit" ELSE "command"
    /\ UNCHANGED <<attrs, channels, dev_list, inited, log, last, context, xml_size, stop>>

\* iio_read_command returns without a dispatch (the engine read no command
\* it could dispatch)
CommandReturns ==
    /\ last = NoCall
    /\ loop = "command"
    /\ loop' = "head"
    /\ UNCHANGED <<attrs, channels, dev_list, inited, log, last, context, xml_size, stop>>

\* quit_all: a signal arrives once the handlers are set, at any point of the
\* loop, a dispatch in progress included; SIGSEGV is handled by quit_all too
\* (example2.c 159), so a dispatch that trapped sets the flag and stays where
\* it is
QuitAll ==
    /\ loop \in {"head", "command"}
    /\ ~stop
    /\ stop' = TRUE
    /\ UNCHANGED <<attrs, channels, dev_list, inited, log, last, context, xml_size, loop>>

Next ==
    \/ RegisterAttribute
    \/ RegisterChannel
    \/ RegisterDevice
    \/ IioInit
    \/ ReadAttr
    \/ WriteAttr
    \/ ChReadAttr
    \/ ChWriteAttr
    \/ ReadData
    \/ WriteData
    \/ GetXml
    \/ Continue

Spec == Init /\ [][Next]_vars

(***************************************************************************)
(* example2.c's main, with any order of its registration calls: one        *)
(* device, two channels, two attributes, every calloc returning memory;    *)
(* then iio_init, the signal handlers and the command loop.                *)
(***************************************************************************)
MainDevs == {"adc"}
MainChans == {"voltage0", "voltage0_out"}
MainAttrs == {"scale", "raw"}
MainAttrOwners == {"adc", "voltage0", "voltage0_out"}
MainCallbacks == {<<"write_data", "read_data">>}

MainRegisterAttribute == RegisterAttributeIn(MainAttrs, MainAttrOwners, {TRUE}, MaxMainItems)
MainRegisterChannel == RegisterChannelIn(MainChans, MainDevs, {TRUE}, MaxMainItems)
MainRegisterDevice == RegisterDeviceIn(MainDevs, {TRUE}, MaxMainItems)
MainIioInit == IioInitWith(MainCallbacks)

InitMain ==
    /\ attrs = [o \in Owners |-> NULL]
    /\ channels = [d \in DevObjs |-> NULL]
    /\ dev_list = NULL
    /\ inited = FALSE
    /\ log = [attrs |-> [o \in Owners |-> <<>>],
              channels |-> [d \in DevObjs |-> <<>>],
              devices |-> <<>>]
    /\ last = NoCall
    /\ context = NoContext
    /\ xml_size = IIO_XML_SIZE
    /\ stop = FALSE
    /\ loop = "main"

NextMain ==
    \/ MainRegisterAttribute
    \/ MainRegisterChannel
    \/ MainRegisterDevice
    \/ MainIioInit
    \/ EnterLoop
    \/ LoopTest
    \/ ReadAttr
    \/ WriteAttr
    \/ ChReadAttr
    \/ ChWriteAttr
    \/ ReadData
    \/ WriteData
    \/ GetXml
    \/ CommandReturns
    \/ Continue
    \/ QuitAll

SpecMain == InitMain /\ [][NextMain]_vars

(***************************************************************************)
(* The command loop of main with a registry of at most one device, one     *)
(* channel and the attribute scale.  The loop test is the program's own    *)
(* step and is taken when it is due; when iio_read_command returns depends *)
(* on the bytes that arrive, and nothing is assumed about it.              *)
(***************************************************************************)
LoopChans == {"voltage0"}
LoopAttrs == {"scale"}
LoopAttrOwners == {"adc", "voltage0"}

LoopRegisterAttribute == RegisterAttributeIn(LoopAttrs, LoopAttrOwners, {TRUE}, MaxMainItems)
LoopRegisterChannel == RegisterChannelIn(LoopChans, MainDevs, {TRUE}, MaxMainItems)

NextLoop ==
    \/ LoopRegisterAttribute
    \/ LoopRegisterChannel
    \/ MainRegisterDevice
    \/ MainIioInit
    \/ EnterLoop
    \/ LoopTest
    \/ ReadAttr
    \/ WriteAttr
    \/ ChReadAttr
    \/ ChWriteAttr
    \/ ReadData
    \/ WriteData
    \/ GetXml
    \/ CommandReturns
    \/ Continue
    \/ QuitAll

SpecLoop == InitMain /\ [][NextLoop]_vars /\ WF_vars(LoopTest)

(***************************************************************************)
(* Rendering alone: the same registration calls and iio_init, in a build   *)
(* with the default IIO_XML_SIZE or with a small one.                      *)
(***************************************************************************)
XmlSizes == {IIO_XML_SIZE, SmallXmlSize}

InitRender ==
    /\ attrs = [o \in Owners |-> NULL]
    /\ channels = [d \in DevObjs |-> NULL]
    /\ dev_list = NULL
    /\ inited = FALSE
    /\ log = [attrs |-> [o \in Owners |-> <<>>],
              channels |-> [d \in DevObjs |-> <<>>],
              devices |-> <<>>]
    /\ last = NoCall
    /\ context = NoContext
    /\ xml_size \in XmlSizes
    /\ stop = FALSE
    /\ loop = "any"

NextRender ==
    \/ MainRegisterAttribute
    \/ MainRegisterChannel
    \/ MainRegisterDevice
    \/ IioInit
    \/ GetXml
    \/ Continue

SpecRender == InitRender /\ [][NextRender]_vars

(***************************************************************************)
(* Device ids of one to ten characters: one device out of ids 0, 999, 1000 *)
(* and 2^32-1 is registered (iio_register_device takes no second device),  *)
(* with at most a channel and the attribute scale; the engine sends the    *)
(* identifiers of these ids and "-1".                                      *)
(***************************************************************************)
IdDevs == {"adc", "adc_999", "adc_1000", "adc_max"}
IdChans == {"voltage0"}
IdAttrs == {"scale"}
IdAttrOwners == IdDevs \cup IdChans
IdDeviceIds == {<<"0">>, <<"9", "9", "9">>, <<"1", "0", "0", "0">>, <<"-", "1">>}

IdsRegisterAttribute == RegisterAttributeIn(IdAttrs, IdAttrOwners, {TRUE}, MaxMainItems)
IdsRegisterChannel == RegisterChannelIn(IdChans, IdDevs, {TRUE}, MaxMainItems)
IdsRegisterDevice == RegisterDeviceIn(IdDevs, {TRUE}, MaxMainItems)

NextIds ==
    \/ IdsRegisterAttribute
    \/ IdsRegisterChannel
    \/ IdsRegisterDevice
    \/ MainIioInit
    \/ ReadAttrWith(IdDeviceIds)
    \/ WriteAttrWith(IdDeviceIds)
    \/ ChReadAttrWith(IdDeviceIds)
    \/ ChWriteAttrWith(IdDeviceIds)
    \/ ReadDataWith(IdDeviceIds)
    \/ WriteDataWith(IdDeviceIds)
    \/ GetXml
    \/ Continue

SpecIds == InitRender /\ [][NextIds]_vars


(***************************************************************************)
(* Properties                                                              *)
(***************************************************************************)
Range(f) == { f[i] : i \in DOMAIN f }

RegisterOps == {"iio_register_attribute", "iio_register_channel", "iio_register_device"}

\* the collection the last registration call was handed, as it is now
Target ==
    CASE last.op = "iio_register_attribute" -> attrs[last.arg.owner]
      [] last.op = "iio_register_channel" -> channels[last.arg.owner]
      [] last.op = "iio_register_device" -> dev_list

SameAttrName(a, b) == attribute[a].name = attribute[b].name
SameChanKey(a, b) == channel[a].id = channel[b].id /\ channel[a].type = channel[b].type
SameDevName(a, b) == device[a].name = device[b].name
SameDevId(a, b) == device[a].id = device[b].id

\* C1: registering an attribute whose name is already in the collection
\* returns a negative value, and every registration call that returns a
\* negative value (duplicate or allocation failure; attribute, channel or
\* device) leaves the collection as it was: same items, same order.
C1_FailedRegistrationKeepsCollection ==
    /\ last.op = "iio_register_attribute" =>
         ((\E b \in Range(last.before) : SameAttrName(b, last.arg.item)) => last.ret < 0)
    /\ last.op \in RegisterOps =>
         (last.ret < 0 => Target = last.before)

\* a second object named "scale" is refused by a list of two that holds "scale"
C1_Witness ==
    /\ last.op = "iio_register_attribute"
    /\ last.arg.item = "scale_b"
    /\ last.arg.calloc_ok
    /\ Len(last.before) = 2
    /\ "scale" \in Range(last.before)
    /\ last.ret = -EINVAL
    /\ attrs[last.arg.owner] = last.before

\* C2: an attribute whose name differs from every name in the collection is
\* registered (given that calloc returns memory): the collection grows by
\* exactly that item at the tail and the call returns the item's 1-based
\* position, so the k-th of k calls with distinct names on an empty
\* collection returns k.
C2_DistinctNamesAppendAndReturnPosition ==
    (/\ last.op = "iio_register_attribute"
     /\ last.arg.calloc_ok
     /\ \A b \in Range(last.before) : ~SameAttrName(b, last.arg.item))
    => /\ last.ret = Len(last.before) + 1
       /\ attrs[last.arg.owner] = Append(last.before, last.arg.item)
       /\ log.attrs[last.arg.owner] = attrs[last.arg.owner]

\* the third of three distinct names returns 3
C2_Witness ==
    /\ last.op = "iio_register_attribute"
    /\ last.ret = 3
    /\ Len(attrs[last.arg.owner]) = 3
    /\ Len(last.before) = 2

\* C3: iio_register_device (calloc returning memory) rejects a device that
\* shares its name or its numeric id with a registered device and accepts,
\* at the tail, a device that shares neither.
C3_DeviceRejectedIffNameOrIdTaken ==
    (last.op = "iio_register_device" /\ last.arg.calloc_ok) =>
        IF \E b \in Range(last.before) :
               SameDevName(b, last.arg.item) \/ SameDevId(b, last.arg.item)
        THEN last.ret < 0 /\ dev_list = last.before
        ELSE last.ret = Len(last.before) + 1
             /\ dev_list = Append(last.before, last.arg.item)

\* C4: iio_register_channel (calloc returning memory) rejects a channel
\* exactly when a channel of the collection has the same id and the same
\* type; otherwise the channel is appended at the tail.
C4_ChannelRejectedIffIdAndTypeTaken ==
    (last.op = "iio_register_channel" /\ last.arg.calloc_ok) =>
        IF \E b \in Range(last.before) : SameChanKey(b, last.arg.item)
        THEN last.ret < 0 /\ channels[last.arg.owner] = last.before
        ELSE last.ret = Len(last.before) + 1
             /\ channels[last.arg.owner] = Append(last.before, last.arg.item)

\* "voltage0"/output is accepted after "voltage0"/input
C4_Witness ==
    /\ last.op = "iio_register_channel"
    /\ last.arg.item = "voltage0_out"
    /\ last.before = <<"voltage0">>
    /\ last.ret = 2
    /\ channels[last.arg.owner] = <<"voltage0", "voltage0_out">>

NoTwo(list, Same(_, _)) ==
    \A i, j \in DOMAIN list : i # j => ~Same(list[i], list[j])

\* C5: after any sequence of registration calls every collection is the
\* sequence of the items whose registration succeeded, in call order; no two
\* devices share an id or a name, no two channels of a device share
\* (id, type), no two attributes of a collection share a name.
C5_CollectionsAreTheirSuccessfulRegistrations ==
    /\ \A o \in Owners : attrs[o] = log.attrs[o]
    /\ \A d \in DevObjs : channels[d] = log.channels[d]
    /\ dev_list = log.devices
    /\ NoTwo(dev_list, SameDevName)
    /\ NoTwo(dev_list, SameDevId)
    /\ \A d \in DevObjs : NoTwo(channels[d], SameChanKey)
    /\ \A o \in Owners : NoTwo(attrs[o], SameAttrName)

\* a device with two channels, after a channel registration that failed
C5_Witness ==
    /\ Len(dev_list) = 1
    /\ Len(channels[dev_list[1]]) = 2
    /\ last.op = "iio_register_channel"
    /\ last.arg.owner = dev_list[1]
    /\ last.ret < 0


AttrOps == {"read_attr", "write_attr"}
ChnOps == {"ch_read_attr", "ch_write_attr"}
DataOps == {"read_data", "write_data"}
DispatchOps == AttrOps \cup ChnOps \cup DataOps

\* a well-formed device identifier: one or more decimal digits
WellFormed(s) == s # <<>> /\ \A i \in DOMAIN s : s[i] \in Digits

\* the number a well-formed identifier denotes
RECURSIVE Decimal(_)
Decimal(s) ==
    IF s = <<>> THEN 0
    ELSE 10 * Decimal(SubSeq(s, 1, Len(s) - 1)) + DigitVal(s[Len(s)])

DevicesWithId(n) == { d \in Range(dev_list) : device[d].id = n }
HasAttr(list, name) == \E a \in Range(list) : attribute[a].name = name
Direction(ch_out) == IF ch_out THEN "output" ELSE "input"

NotFoundNoCall == last.returned /\ last.ret = -ENOENT /\ last.calls = <<>>

\* C6: with a well-formed device identifier, read_attr and write_attr on a
\* registered device return -ENOENT without calling an accessor when the
\* attribute is not registered on that device (also when the device has no
\* attribute at all), and all six operations do so when no registered device
\* has the id.
C6_UnknownAttributeOrDeviceIsNotFound ==
    (last.op \in DispatchOps /\ WellFormed(last.arg.device)) =>
        LET ds == DevicesWithId(Decimal(last.arg.device)) IN
        /\ ds = {} => NotFoundNoCall
        /\ (last.op \in AttrOps /\ \E d \in ds : ~HasAttr(attrs[d], last.arg.attr))
             => NotFoundNoCall

\* C7: ch_read_attr and ch_write_attr do not resolve a request against a
\* channel of the other direction: when the device has a channel with the
\* requested id only in the direction opposite to the request's output flag
\* (and every list the lookup walks is non-null), the call returns -ENOENT
\* and no accessor is called.
C7_DirectionMismatchIsNoSuchChannel ==
    (last.op \in ChnOps /\ WellFormed(last.arg.device) /\ ~last.nullderef) =>
        \A d \in DevicesWithId(Decimal(last.arg.device)) :
            (/\ \E c \in Range(channels[d]) :
                    /\ channel[c].id = last.arg.channel
                    /\ channel[c].type # Direction(last.arg.ch_out)
             /\ ~\E c \in Range(channels[d]) :
                    /\ channel[c].id = last.arg.channel
                    /\ channel[c].type = Direction(last.arg.ch_out))
            => NotFoundNoCall

\* C8: a device identifier that is not a well-formed number (empty, not
\* numeric, digits followed by other characters) resolves to no device: the
\* call (every list it walks being non-null) returns -ENOENT and no accessor
\* is called.
C8_MalformedDeviceIdIsNoSuchDevice ==
    (last.op \in DispatchOps /\ ~WellFormed(last.arg.device) /\ ~last.nullderef)
        => NotFoundNoCall

\* Resolution as the dispatcher performs it: the first device of the list
\* whose id is the parsed identifier; for channel operations the first channel
\* of that device with the requested id; then an attribute of that name.
FirstIndex(list, Match(_)) ==
    IF \E i \in DOMAIN list : Match(list[i])
    THEN CHOOSE i \in DOMAIN list :
             Match(list[i]) /\ \A j \in DOMAIN list : Match(list[j]) => i <= j
    ELSE 0

DevMatch(d) == device[d].id = atoi(last.arg.device)
ChnMatch(c) == channel[c].id = last.arg.channel

ResolvedDev == dev_list[FirstIndex(dev_list, DevMatch)]

Resolves ==
    /\ last.op \in DispatchOps
    /\ FirstIndex(dev_list, DevMatch) # 0
    /\ last.op \in AttrOps => HasAttr(attrs[ResolvedDev], last.arg.attr)
    /\ last.op \in ChnOps =>
         LET cs == channels[ResolvedDev]
             k == FirstIndex(cs, ChnMatch)
         IN k # 0 /\ HasAttr(attrs[cs[k]], last.arg.attr)

\* the accessor slot the operation uses on the resolved device
Slot ==
    CASE last.op = "read_attr" -> device[ResolvedDev].attr_accessors.read_attr
      [] last.op = "write_attr" -> device[ResolvedDev].attr_accessors.write_attr
      [] last.op = "ch_read_attr" -> device[ResolvedDev].chn_accessors.read_attr
      [] last.op = "ch_write_attr" -> device[ResolvedDev].chn_accessors.write_attr
      [] last.op = "read_data" -> device[ResolvedDev].chn_accessors.read_data
      [] last.op = "write_data" -> device[ResolvedDev].chn_accessors.write_data

\* the request's own arguments: everything but the device identifier
RequestArgs == [x \in (DOMAIN last.arg) \ {"device"} |-> last.arg[x]]

\* C9: when the dispatcher resolves the identifiers and the device's slot for
\* the operation is populated, that accessor is called exactly once, with the
\* device's data handle and the request's own arguments, and the operation
\* returns what the accessor returned, negative or not.
C9_AccessorCalledOnceResultVerbatim ==
    (Resolves /\ Slot # "NULL") =>
        /\ last.returned
        /\ Len(last.calls) = 1
        /\ last.calls[1] = [fn |-> Slot, data |-> device[ResolvedDev].data,
                            result |-> last.calls[1].result] @@ RequestArgs
        /\ last.calls[1].result \in AccRets
        /\ last.ret = last.calls[1].result

\* ch_read_attr hands back an accessor's negative result, write_data a count
C9_Witness ==
    /\ Resolves
    /\ Slot # "NULL"
    /\ \/ last.op = "ch_read_attr" /\ last.ret = -ENOENT /\ ~last.arg.ch_out
       \/ last.op = "write_data" /\ last.ret = 5
    /\ Len(last.calls) = 1

\* C10: a dispatch operation returns -ENOSYS exactly when its identifiers
\* resolve and the device's slot for the operation is null; an unresolved
\* request returns -ENOENT whatever the slot, and a null slot is never called.
C10_NotImplementedIffResolvedAndNullSlot ==
    last.op \in DispatchOps =>
        /\ last.returned
        /\ (last.ret = -ENOSYS) <=> (Resolves /\ Slot = "NULL")
        /\ ~Resolves => NotFoundNoCall
        /\ \A i \in DOMAIN last.calls : last.calls[i].fn # "NULL"


(***************************************************************************)
(* The descriptor, as the registration history determines it               *)
(***************************************************************************)
\* the element of attribute object a
AttributeText(a) == "<attribute name=\"" \o attribute[a].name \o "\" />"

\* the elements of the attributes registered on owner o, in registration order
AttributesText(o) ==
    LET list == log.attrs[o]
        f[i \in 0..Len(list)] == IF i = 0 THEN "" ELSE f[i - 1] \o AttributeText(list[i])
    IN f[Len(list)]

\* the element of channel c: its attributes inside it
ChannelText(c) ==
    "<channel id=\"" \o channel[c].id \o "\" type=\"" \o channel[c].type \o "\">"
    \o AttributesText(c) \o "</channel>"

\* the element of device d: its channels in registration order, then its own
\* attributes
DeviceText(d) ==
    LET list == log.channels[d]
        f[i \in 0..Len(list)] == IF i = 0 THEN "" ELSE f[i - 1] \o ChannelText(list[i])
    IN "<device id=\"" \o sprintf_d(device[d].id) \o "\" name=\"" \o device[d].name \o "\">"
       \o f[Len(list)] \o AttributesText(d) \o "</device>"

\* the document of the registered devices, in registration order
Document(name, description) ==
    LET list == log.devices
        f[i \in 0..Len(list)] == IF i = 0 THEN "" ELSE f[i - 1] \o DeviceText(list[i])
    IN dtd \o "<context name=\"" \o name \o "\" description=\"" \o description \o "\">"
       \o f[Len(list)] \o "</context>"

C12_OverflowIsReportedToTheCaller ==
    /\ strlen(context.xml) < xml_size
    /\ (/\ last.op = "iio_init"
        /\ last.arg.devices # NULL
        /\ last.arg.write_cb # "NULL"
        /\ last.arg.read_cb # "NULL"
        /\ ~last.nullderef
        /\ strlen(Document(last.arg.ctx_name, last.arg.ctx_desc)) + 1 > xml_size)
       => /\ last.returned
          /\ last.ret < 0
          /\ context.xml \in {last.before.xml, ""}

\* the collections a request can reach from the context: the device list,
\* its devices, their channels
Reachable(owner) ==
    \/ owner = "dev_list"
    \/ owner \in Range(dev_list)
    \/ \E d \in Range(dev_list) : owner \in Range(channels[d])

\* no device or channel of the context has an empty collection
NoEmptyCollection ==
    \A d \in Range(dev_list) :
        /\ channels[d] # NULL
        /\ attrs[d] # NULL
        /\ \A c \in Range(channels[d]) : attrs[c] # NULL

\* C13: once iio_init has rendered the descriptor, a registration call on a
\* collection reachable from the context is rejected or ignored: it leaves
\* the collection as it was, so that what the dispatcher resolves stays what
\* the descriptor lists.  (Stated for a context whose collections were all
\* non-empty before the call, so that the render had read no null list.)
C13_RegistrationAfterInitIsRejected ==
    (/\ last.op \in RegisterOps
     /\ context.xml # ""
     /\ Reachable(last.arg.owner)
     /\ NoEmptyCollection
     /\ last.before # NULL)
    => /\ Target = last.before
       /\ context.xml = Document(context.name, context.description)

\* C14: a second iio_init on the registry the first one rendered (no
\* registration lies between two iio_init calls of this specification), with
\* the same name and description, leaves in the buffer the very document the
\* first left: nothing is appended to it and nothing of it shows through.
\* Stated for renders that read no null list.
C14_RenderTwiceSameDocument ==
    (/\ last.op = "iio_init"
     /\ last.returned
     /\ ~last.nullderef
     /\ last.before.iiod # "NULL"
     /\ last.before.name = last.arg.ctx_name
     /\ last.before.description = last.arg.ctx_desc)
    => /\ context.xml = last.before.xml
       /\ last.index = strlen(last.before.xml)

\* the second render of a device with a channel and attributes
C14_Witness ==
    /\ last.op = "iio_init"
    /\ last.returned
    /\ ~last.nullderef
    /\ last.before.iiod # "NULL"
    /\ last.before.xml # ""
    /\ context.xml = last.before.xml
    /\ channels["adc"] # NULL

EngineOps == DispatchOps \cup {"get_xml"}

\* C15: a call of read_attr, write_attr, ch_read_attr, ch_write_attr,
\* read_data, write_data or get_xml, whatever it returns (or if it traps),
\* leaves the descriptor buffer and the three kinds of collection as they
\* were; get_xml hands out the buffer; and the buffer changes in no step but
\* an iio_init call, so every get_xml after iio_init returns the document
\* iio_init left.
C15_DispatchLeavesDescriptorAndRegistry ==
    [][/\ (last' # last /\ last'.op \in EngineOps) =>
            /\ context'.xml = context.xml
            /\ attrs' = attrs
            /\ channels' = channels
            /\ dev_list' = dev_list
            /\ last'.op = "get_xml" => last'.outxml = context.xml
       /\ context'.xml # context.xml => last'.op = "iio_init"]_vars

\* get_xml returns the document after a registration that followed iio_init
C15_Witness ==
    /\ last.op = "get_xml"
    /\ last.returned
    /\ last.outxml = context.xml
    /\ context.xml # ""
    /\ NoEmptyCollection
    /\ context.xml # Document(context.name, context.description)

\* the table iio_init hands to tinyiiod_create
FullOps(write_cb, read_cb) ==
    [read_attr |-> "read_attr", write_attr |-> "write_attr",
     ch_read_attr |-> "ch_read_attr", ch_write_attr |-> "ch_write_attr",
     read_data |-> "read_data", write_data |-> "write_data", get_xml |-> "get_xml",
     write |-> write_cb, read |-> read_cb]

\* C16: iio_init returns (the serving state) only when the device list it
\* was given holds a device and both byte-stream callbacks are present;
\* called otherwise it ends in a failed assert with the context untouched.
\* When it returns, the ops table holds the seven entry points and the two
\* callbacks, none null, the context's device list is the list given, and
\* the buffer holds the document rendered from it (compared with the
\* registry's document when the render read no null list).
C16_InitServesOnlyAValidRegistry ==
    last.op = "iio_init" =>
        LET valid == /\ last.arg.devices # NULL
                     /\ last.arg.write_cb # "NULL"
                     /\ last.arg.read_cb # "NULL"
        IN /\ last.returned => valid
           /\ ~valid => (last.status = "assert" /\ context = last.before)
           /\ last.returned =>
                /\ inited
                /\ context.ops = FullOps(last.arg.write_cb, last.arg.read_cb)
                /\ \A f \in DOMAIN context.ops : context.ops[f] # "NULL"
                /\ ContextDevices = last.arg.devices
                /\ Len(ContextDevices) >= 1
                /\ context.name = last.arg.ctx_name
                /\ context.description = last.arg.ctx_desc
                /\ context.xml # last.before.xml \/ last.before.iiod # "NULL"
                /\ ~last.nullderef =>
                     context.xml = Document(last.arg.ctx_name, last.arg.ctx_desc)

\* iio_init returns for a device with a channel and attributes
C16_Witness ==
    /\ last.op = "iio_init"
    /\ last.returned
    /\ ~last.nullderef
    /\ last.before = NoContext
    /\ context.ops.read = "read_data"
    /\ context.ops.get_xml = "get_xml"
    /\ dev_list = <<"adc">>
    /\ channels["adc"] # NULL

\* C17 as claimed: once quit_all has set the flag, the dispatch of no further
\* command starts.
C17_NoDispatchStartsAfterStop ==
    [][stop => ~(last = NoCall /\ last' # NoCall /\ last'.op \in EngineOps)]_vars

\* C17 as amended: commands are dispatched one at a time, each inside an
\* iio_read_command call; the flag is read at the loop test only, so the loop
\* ends nowhere but there and a dispatch in progress runs to its return;
\* once the flag is set no further iio_read_command call starts, and the
\* loop ends at its next test.
C17_StopObservedAtLoopTestOnly ==
    /\ [][/\ (last = NoCall /\ last' # NoCall /\ last'.op \in EngineOps) => loop = "command"
          /\ last # NoCall => (last' = last \/ last' = NoCall)
          /\ (loop' = "exit" /\ loop # "exit") => (loop = "head" /\ stop /\ last = NoCall)
          /\ (stop /\ loop = "head") => loop' \in {"head", "exit"}
          /\ (stop /\ loop' = "command") => loop = "command"]_vars
    /\ ((stop /\ loop = "head") ~> (loop = "exit"))

\* the loop has ended on the flag
C17_Witness ==
    /\ stop
    /\ loop = "exit"
    /\ inited
    /\ last = NoCall

\* C18: no operation fails because a collection is empty.  An iio_init that
\* passes its checks returns with the document of the registry, a device or
\* channel with nothing registered on it rendering as an element without
\* children of that kind; every dispatch operation returns; ch_read_attr and
\* ch_write_attr on a device with no channels return -ENOENT without calling
\* an accessor.
C18_EmptyCollectionsAreHarmless ==
    /\ (last.op = "iio_init" /\ last.status # "assert") =>
          /\ last.returned
          /\ context.xml = Document(last.arg.ctx_name, last.arg.ctx_desc)
    /\ last.op \in DispatchOps => last.returned
    /\ (/\ last.op \in ChnOps
        /\ WellFormed(last.arg.device)
        /\ \A d \in DevicesWithId(Decimal(last.arg.device)) : log.channels[d] = <<>>)
          => NotFoundNoCall

\* C19: in ch_read_attr and ch_write_attr the first channel of the device
\* with the requested id decides: when the attribute is not registered on it
\* but is registered on a later channel of the same id, the call returns
\* -ENOENT and no accessor is called.
C19_FirstChannelDecides ==
    (/\ last.op \in ChnOps
     /\ WellFormed(last.arg.device)
     /\ FirstIndex(dev_list, DevMatch) # 0) =>
        LET cs == channels[ResolvedDev]
            k == FirstIndex(cs, ChnMatch)
        IN (/\ k # 0
            /\ ~HasAttr(attrs[cs[k]], last.arg.attr)
            /\ \E j \in (k + 1)..Len(cs) :
                   ChnMatch(cs[j]) /\ HasAttr(attrs[cs[j]], last.arg.attr))
           => NotFoundNoCall

\* C20: read_data and write_data look at the device only.  With a
\* well-formed device identifier: when no registered device has the id the
\* call returns -ENOENT and calls nothing; otherwise the first such device
\* decides, whatever channels and attributes it has: a null read_data (resp.
\* write_data) slot gives -ENOSYS and no call, a populated one is called once
\* with the device's data handle, the buffer, the offset and the byte count,
\* and its result is returned.
C20_DataOpsResolveTheDeviceOnly ==
    (last.op \in DataOps /\ WellFormed(last.arg.device)) =>
        LET HasId(d) == device[d].id = Decimal(last.arg.device)
            k == FirstIndex(dev_list, HasId)
        IN IF k = 0 THEN NotFoundNoCall
           ELSE LET d == dev_list[k]
                    slot == IF last.op = "read_data"
                            THEN device[d].chn_accessors.read_data
                            ELSE device[d].chn_accessors.write_data
                IN /\ last.returned
                   /\ slot = "NULL" => (last.ret = -ENOSYS /\ last.calls = <<>>)
                   /\ slot # "NULL" =>
                        /\ Len(last.calls) = 1
                        /\ last.calls[1] =
                             [fn |-> slot, data |-> device[d].data,
                              buf |-> last.arg.buf, offset |-> last.arg.offset,
                              bytes_count |-> last.arg.bytes_count,
                              result |-> last.ret]

\* read_data on a device with no channel and no attribute returns the
\* accessor's byte count
C20_Witness ==
    /\ last.op = "read_data"
    /\ WellFormed(last.arg.device)
    /\ \E d \in Range(dev_list) :
          /\ device[d].id = Decimal(last.arg.device)
          /\ channels[d] = <<>>
          /\ attrs[d] = <<>>
    /\ Len(last.calls) = 1
    /\ last.ret = 5

\* an identifier that denotes a negative number: a minus sign, then digits,
\* not all of them zero
Negative(s) ==
    /\ Len(s) >= 2
    /\ s[1] = "-"
    /\ \A i \in 2..Len(s) : s[i] \in Digits
    /\ \E i \in 2..Len(s) : s[i] # "0"

\* the number a device's unsigned id is, where the model's integers hold it:
\* a pattern with the top bit set is 2^31 or more, beyond every identifier
\* tried
IdIs(d, n) == device[d].id >= 0 /\ device[d].id = n

\* C21: a request reaches an accessor of a device only if the device's
\* unsigned id is the number its identifier denotes, and a request with a
\* negative identifier resolves to no device, a device with id 2^32-1
\* included: it returns -ENOENT and calls nothing.
C21_NegativeIdentifierResolvesToNoDevice ==
    /\ (last.op \in DispatchOps /\ Negative(last.arg.device)) => NotFoundNoCall
    /\ (last.op \in DataOps /\ WellFormed(last.arg.device) /\ last.calls # <<>>) =>
          \E d \in Range(dev_list) :
              /\ IdIs(d, Decimal(last.arg.device))
              /\ last.calls[1].data = device[d].data

\* Why a channel-attribute request with a well-formed device identifier
\* fails, read off the registry: no device has the id; the device has no
\* channel with the channel id; the channel has no attribute of the name;
\* the device's slot for the operation is null.
FailureKind(op, dv, ch, at) ==
    LET HasId(d) == device[d].id = Decimal(dv)
        k == FirstIndex(dev_list, HasId)
    IN IF k = 0 THEN "NoSuchDevice"
       ELSE LET d == dev_list[k]
                HasChnId(c) == channel[c].id = ch
                j == FirstIndex(channels[d], HasChnId)
            IN IF j = 0 THEN "NoSuchChannel"
               ELSE IF ~HasAttr(attrs[channels[d][j]], at) THEN "NoSuchAttribute"
               ELSE IF (IF op = "ch_read_attr" THEN device[d].chn_accessors.read_attr
                        ELSE device[d].chn_accessors.write_attr) = "NULL"
               THEN "NotImplemented"
               ELSE "Resolved"

\* the same operation with other identifiers against the same registry
Again(op, dv, ch, at) ==
    IF op = "ch_read_attr"
    THEN ch_read_attr(ContextDevices, dv, ch, last.arg.ch_out, at,
                      last.arg.buf, last.arg.len, "reads_null", 0)
    ELSE ch_write_attr(ContextDevices, dv, ch, last.arg.ch_out, at,
                       last.arg.buf, last.arg.len, "reads_null", 0)

\* C22: the value a failed request returns tells why it failed: two
\* channel-attribute requests against the same registry that fail for
\* different reasons (unknown device, unknown channel, unknown attribute,
\* null slot) return different values.
C22_FailuresAreDistinguishable ==
    (/\ last.op \in ChnOps
     /\ WellFormed(last.arg.device)
     /\ last.returned
     /\ ~last.nullderef
     /\ FailureKind(last.op, last.arg.device, last.arg.channel, last.arg.attr) # "Resolved") =>
        \A dv \in { x \in DeviceIds : WellFormed(x) }, ch \in ChannelIds, at \in AttrNames :
            LET r == Again(last.op, dv, ch, at)
                kind == FailureKind(last.op, dv, ch, at)
            IN (/\ r.returned
                /\ ~r.nullderef
                /\ kind # "Resolved"
                /\ kind # FailureKind(last.op, last.arg.device, last.arg.channel,
                                      last.arg.attr))
               => r.ret # last.ret

\* the decimal text of the unsigned number whose 32-bit pattern is p, for
\* the patterns the devices of the model have: 2^32 + p = 4294 967296 + p
UnsignedText(p) ==
    IF p >= 0 THEN DecimalDigits(p) ELSE "4294" \o DecimalDigits(967296 + p)

\* C23: an iio_init that passes its checks returns with a descriptor in
\* which every registered device's element carries the decimal text of its
\* unsigned id, and formatting an id never writes past id_str.
C23_DeviceIdTextFitsIdStr ==
    (last.op = "iio_init" /\ last.status # "assert") =>
        /\ ~last.overrun
        /\ (~last.nullderef) =>
             /\ last.returned
             /\ \A d \in Range(last.arg.devices) :
                   \E i \in 1..Len(context.xml) :
                      LET open == "<device id=\"" \o UnsignedText(device[d].id)
                                  \o "\" name=\"" \o device[d].name \o "\">"
                      IN /\ i + Len(open) - 1 <= Len(context.xml)
                         /\ SubSeq(context.xml, i, i + Len(open) - 1) = open

\* the owners whose attribute collection holds attribute object a, the
\* devices whose channel collection holds channel object c
AttrOwnersOf(a) == { o \in Owners : a \in Range(attrs[o]) }
ChanOwnersOf(c) == { d \in DevObjs : c \in Range(channels[d]) }

\* C24: after any sequence of registration calls no attribute object is in
\* the collections of two owners and no channel object in the collections of
\* two devices, and a registration of an item that another collection
\* already holds returns a negative value.
C24_ItemsHaveOneOwner ==
    /\ \A a \in AttrObjs : Cardinality(AttrOwnersOf(a)) <= 1
    /\ \A c \in ChanObjs : Cardinality(ChanOwnersOf(c)) <= 1
    /\ (/\ last.op = "iio_register_attribute"
        /\ \E o \in Owners \ {last.arg.owner} : last.arg.item \in Range(log.attrs[o]))
       => last.ret < 0
    /\ (/\ last.op = "iio_register_channel"
        /\ \E d \in DevObjs \ {last.arg.owner} : last.arg.item \in Range(log.channels[d]))
       => last.ret < 0

\* C25: in every generate_xml run (iio_init past its argument checks) in
\* which sprintf stayed inside id_str, index was the number of characters in
\* the buffer after the strcpy and after every group of appends; a check
\* that fails stops the run before the group it counted is appended, so the
\* buffer never holds IIO_XML_SIZE characters or more; and a run that
\* passes every check ends with index the length of the document and less
\* than IIO_XML_SIZE.
C25_IndexCountsTheBuffer ==
    (/\ last.op = "iio_init"
     /\ last.arg.devices # NULL
     /\ last.arg.write_cb # "NULL"
     /\ last.arg.read_cb # "NULL"
     /\ ~last.overrun) =>
        /\ last.counted
        /\ strlen(context.xml) < xml_size
        /\ last.status = "return" =>
              (last.index = strlen(context.xml) /\ last.index < xml_size)
        /\ last.status = "assert" =>
              (last.index >= xml_size /\ strlen(context.xml) < last.index)

\* a device with a channel and attributes is rendered by a run that passes
\* every check
C25_Witness ==
    /\ last.op = "iio_init"
    /\ last.status = "return"
    /\ ~last.overrun
    /\ ~last.nullderef
    /\ NoEmptyCollection
    /\ last.index = strlen(context.xml)
    /\ last.index > strlen(dtd)

====
